---- MODULE Spec2Model ----
(***************************************************************************)
(* A model of the cricket_score repository: the flag resolver and its      *)
(* durable mapping (scraper.py, download_flags.py), the schedule-markup    *)
(* cache, and the schedule extractor's card pass, table pass and merge.    *)
(*                                                                         *)
(* Text is modelled as a sequence of one-character strings, so that        *)
(* slugify, strip, join and the merge key are computed character by        *)
(* character as the code computes them.  Optional[str] is a record         *)
(* [some, v]; None is [some |-> FALSE].                                    *)
(***************************************************************************)
EXTENDS Integers, Sequences, FiniteSets, TLC

VARIABLES
    flagsMap,      \* scraper._FLAGS_MAP: the in-memory mapping of the server process
    mappingFile,   \* /workspace/static/flags/mapping.json
    rawDir,        \* flag ids with a non-empty file under static/flags/raw
    byNameDir,     \* static/flags/by-name: file name -> id whose image it holds
    last,          \* history: the last operation, its arguments and its result
    ops,           \* history: the number of operations performed so far
    \* -- concurrent writers of the mapping file (SpecWriters) --
    pc,            \* where each server thread is in _ensure_flag_local
    call,          \* the (flag_id, team_name) each server thread resolves
    loc,           \* each server thread's locals: flags, raw_path, out_path, f, result
    objs,          \* the dict objects json.load / the literal of line 63 created, by creator
    globalMap,     \* which of them _FLAGS_MAP refers to ("none": the empty dict)
    inodes,        \* the files' contents, by inode
    tmpPath,       \* the inode mapping.json.tmp names (0: no such file)
    mapPath,       \* the inode mapping.json names (0: no such file)
    batch,         \* download_flags.main: where it is, and its locals
    \* -- the schedule-markup cache (SpecCache) --
    cache,         \* scraper._CACHE["html"]: value (0: None) and fetched_at
    now,           \* time.time(), in seconds
    page,          \* the version of the markup the site serves at the moment
    req,           \* each request thread's place in fetch_schedules_html and its locals
    stamped,       \* history: the markup and time of the last completed fetch
    \* -- the schedule extractor (SpecParse) --
    request,       \* the request being served: the markup to parse and the flag site's answers
    result         \* what parse_schedules_html computed: card_items, table_items, merged

(***************************************************************************)
(* Bounds of the model.                                                    *)
(***************************************************************************)
MaxOps == 5        \* operations in one run of the flag-store specification
MaxClock == 150    \* the clock of the cache specification stops here
ClockStep == 30    \* seconds the clock advances in one step
MaxPage == 2       \* versions of the schedules page the site serves
MaxCards == 2      \* .match_update cards in a page
MaxRows == 2       \* rows of the schedule table
MaxTables == 4     \* tables in a scorecard page

(***************************************************************************)
(* Text helpers.                                                           *)
(***************************************************************************)
Upper == <<"A", "B", "C", "D", "E", "F", "G", "H", "I", "J", "K", "L", "M",
           "N", "O", "P", "Q", "R", "S", "T", "U", "V", "W", "X", "Y", "Z">>
LowerCase == <<"a", "b", "c", "d", "e", "f", "g", "h", "i", "j", "k", "l", "m",
               "n", "o", "p", "q", "r", "s", "t", "u", "v", "w", "x", "y", "z">>
Digits == <<"0", "1", "2", "3", "4", "5", "6", "7", "8", "9">>
Whitespace == {" "}

Range(s) == {s[i] : i \in DOMAIN s}

\* str.lower() on one character
Lower(c) == IF \E i \in DOMAIN Upper : Upper[i] = c
            THEN LowerCase[CHOOSE i \in DOMAIN Upper : Upper[i] = c]
            ELSE c

\* [a-z0-9]
IsSlugChar(c) == c \in Range(LowerCase) \cup Range(Digits)

\* str(n) for a natural number
RECURSIVE Str(_)
Str(n) == IF n < 10 THEN <<Digits[n + 1]>>
          ELSE Str(n \div 10) \o <<Digits[(n % 10) + 1]>>

\* s.lstrip(chars), s.rstrip(chars), s.strip(chars)
RECURSIVE LStrip(_, _)
LStrip(s, chars) == IF s # <<>> /\ Head(s) \in chars THEN LStrip(Tail(s), chars) ELSE s
RECURSIVE RStrip(_, _)
RStrip(s, chars) == IF s # <<>> /\ s[Len(s)] \in chars
                    THEN RStrip(SubSeq(s, 1, Len(s) - 1), chars) ELSE s
StripChars(s, chars) == RStrip(LStrip(s, chars), chars)

\* re.sub(r"[^a-z0-9]+", "-", s): every maximal run of other characters becomes one "-"
RECURSIVE SubNonSlug(_, _)
SubNonSlug(s, inRun) ==
    IF s = <<>> THEN <<>>
    ELSE IF IsSlugChar(Head(s)) THEN <<Head(s)>> \o SubNonSlug(Tail(s), FALSE)
    ELSE IF inRun THEN SubNonSlug(Tail(s), TRUE)
    ELSE <<"-">> \o SubNonSlug(Tail(s), TRUE)

\* re.sub(r"-+", "-", s)
RECURSIVE CollapseHyphens(_, _)
CollapseHyphens(s, inRun) ==
    IF s = <<>> THEN <<>>
    ELSE IF Head(s) # "-" THEN <<Head(s)>> \o CollapseHyphens(Tail(s), FALSE)
    ELSE IF inRun THEN CollapseHyphens(Tail(s), TRUE)
    ELSE <<"-">> \o CollapseHyphens(Tail(s), TRUE)

LowerAll(s) == [i \in DOMAIN s |-> Lower(s[i])]

Unknown == <<"u", "n", "k", "n", "o", "w", "n">>

\* scraper._slugify
Slugify(name) ==
    LET s1 == LowerAll(StripChars(name, Whitespace))
        s2 == SubNonSlug(s1, FALSE)
        s3 == StripChars(CollapseHyphens(s2, FALSE), {"-"})
    IN  IF s3 = <<>> THEN Unknown ELSE s3

(***************************************************************************)
(* Optional values.                                                        *)
(***************************************************************************)
None == [some |-> FALSE, v |-> <<>>]
Some(x) == [some |-> TRUE, v |-> x]
\* Python truthiness of an Optional[str]
Truthy(o) == o.some /\ o.v # <<>>
\* dict.get(k)
Get(d, k) == IF k \in DOMAIN d THEN Some(d[k]) ELSE None
\* d[k] = x
Put(d, k, x) == [j \in DOMAIN d \cup {k} |-> IF j = k THEN x ELSE d[j]]
EmptyDict == [j \in {} |-> <<>>]

(***************************************************************************)
(* Inputs.                                                                 *)
(***************************************************************************)
\* flag identifiers: the digit strings "1" and "2"
FlagIds == {Str(1), Str(2)}

\* team names the extractor passes to the resolver: its two call sites (lines 238-241
\* and 313-316) pass a stripped, non-empty name.  "Ab" and "ab" slugify to the same
\* base; "ab 2" slugifies to the name the first disambiguation suffix produces; "!"
\* has no slug character
TeamNames == { <<"A", "b">>, <<"a", "b">>, <<"a", "b", " ", "2">>, <<"!">> }

\* len(r.content) < 100 is "not available"
MinFlagBytes == 100

\* what requests.get of a flag image can do: raise (transport), answer with a
\* non-success status (raise_for_status raises), or answer 200 with a payload
Responses == { [st |-> "transport", len |-> 0],
               [st |-> "status",    len |-> MinFlagBytes],
               [st |-> "ok",        len |-> MinFlagBytes - 1],
               [st |-> "ok",        len |-> MinFlagBytes] }

(***************************************************************************)
(* The flag store: the state _ensure_flag_local reads and writes.          *)
(*   mem    _FLAGS_MAP: loaded (the dict is non-empty), id_to_path,        *)
(*          id_to_name                                                     *)
(*   file   mapping.json: absent, or the mapping it holds                  *)
(*   raw    ids with a non-empty raw/<id>.gif                              *)
(*   byname by-name/<name>.gif -> the id whose image was copied there      *)
(* A value of id_to_path is the file's base name: every writer writes      *)
(* "/static/flags/by-name/<name>.gif".                                     *)
(***************************************************************************)
EmptyMapping == [id_to_path |-> EmptyDict, id_to_name |-> EmptyDict]
NoFile == [exists |-> FALSE, data |-> EmptyMapping]
FileOf(m) == [exists |-> TRUE, data |-> m]
Unloaded == [loaded |-> FALSE, id_to_path |-> EmptyDict, id_to_name |-> EmptyDict]

MappingOf(mem) == [id_to_path |-> mem.id_to_path, id_to_name |-> mem.id_to_name]

\* scraper._load_flags_mapping
LoadFlagsMapping(st) ==
    IF st.mem.loaded THEN st
    ELSE [st EXCEPT !.mem =
            IF st.file.exists
            THEN [loaded |-> TRUE, id_to_path |-> st.file.data.id_to_path,
                  id_to_name |-> st.file.data.id_to_name]
            ELSE [loaded |-> TRUE, id_to_path |-> EmptyDict, id_to_name |-> EmptyDict]]

\* mutant: the mapping is not written to mapping.json
SaveFlagsMappingSkipped(st) == st

\* scraper._save_flags_mapping, run to completion: the temporary file is written
\* and renamed over mapping.json
SaveFlagsMapping(st) == [st EXCEPT !.file = FileOf(MappingOf(st.mem))]

\* mutant: the payload's size is not checked
DownloadFlagGifNoSizeCheck(st, flag_id, resp) ==
    IF flag_id \in st.raw THEN [st |-> st, ok |-> TRUE, fetched |-> FALSE]
    ELSE IF resp.st # "ok" THEN [st |-> st, ok |-> FALSE, fetched |-> TRUE]
    ELSE [st |-> [st EXCEPT !.raw = @ \cup {flag_id}], ok |-> TRUE, fetched |-> TRUE]

\* scraper._download_flag_gif: the raw path (here: whether there is one) and the store
DownloadFlagGif(st, flag_id, resp) ==
    IF flag_id \in st.raw THEN [st |-> st, ok |-> TRUE, fetched |-> FALSE]
    ELSE IF resp.st # "ok" THEN [st |-> st, ok |-> FALSE, fetched |-> TRUE]
    ELSE IF resp.len < MinFlagBytes THEN [st |-> st, ok |-> FALSE, fetched |-> TRUE]
    ELSE [st |-> [st EXCEPT !.raw = @ \cup {flag_id}], ok |-> TRUE, fetched |-> TRUE]

\* mutant: no by-name file is ever seen on disk
ExistsNever(st, fname) == FALSE

\* os.path.exists of a by-name file
Exists(st, fname) == fname \in DOMAIN st.byname

\* the candidate after `base`, `base-2`, ...: f"{base}-{suffix}"
Candidate(base, suffix) == base \o <<"-">> \o Str(suffix)

\* mutant: the lookup reads the wrong dict
ExistingPathWrongDict(st, flag_id) == Get(st.mem.id_to_name, flag_id)

\* id_to_path.get(flag_id), lines 92 and 113
ExistingPath(st, flag_id) == Get(st.mem.id_to_path, flag_id)

\* mutant: the loop is missing, an occupied name is overwritten
FindOutPathNoSuffix(st, flag_id, base, state) == state.out

\* scraper._ensure_flag_local, lines 109-116: the while loop
RECURSIVE FindOutPath(_, _, _, _)
FindOutPath(st, flag_id, base, state) ==
    IF ~Exists(st, state.out) THEN state.out
    ELSE IF ExistingPath(st, flag_id) = Some(state.out) THEN state.out
    ELSE FindOutPath(st, flag_id, base,
                     [out |-> Candidate(base, state.suffix), suffix |-> state.suffix + 1])

FlagPrefix == <<"f", "l", "a", "g", "-">>

\* scraper._ensure_flag_local: [st: the store after the call, ret: what it returns,
\* fetched: whether a network request was made, copied: whether a file was copied]
EnsureFlagLocal(st0, flag_id, team_name, resp) ==
    LET st1 == LoadFlagsMapping(st0)
        existing == ExistingPath(st1, flag_id)
    IN  IF Truthy(existing) /\ Exists(st1, existing.v)
        THEN IF team_name # <<>> /\ Get(st1.mem.id_to_name, flag_id) # Some(team_name)
             THEN LET st2 == [st1 EXCEPT !.mem.id_to_name = Put(@, flag_id, team_name)]
                  IN  [st |-> SaveFlagsMapping(st2), ret |-> existing,
                       fetched |-> FALSE, copied |-> FALSE]
             ELSE [st |-> st1, ret |-> existing, fetched |-> FALSE, copied |-> FALSE]
        ELSE
        LET dl == DownloadFlagGif(st1, flag_id, resp)
        IN  IF ~dl.ok
            THEN [st |-> dl.st, ret |-> None, fetched |-> dl.fetched, copied |-> FALSE]
            ELSE
            LET base == Slugify(IF team_name # <<>> THEN team_name
                                ELSE FlagPrefix \o flag_id)
                out  == FindOutPath(dl.st, flag_id, base, [out |-> base, suffix |-> 2])
                st3  == [dl.st EXCEPT !.byname = Put(@, out, flag_id)]
                st4  == [st3 EXCEPT !.mem.id_to_path = Put(@, flag_id, out)]
                st5  == IF team_name # <<>>
                        THEN [st4 EXCEPT !.mem.id_to_name = Put(@, flag_id, team_name)]
                        ELSE st4
            IN  [st |-> SaveFlagsMapping(st5), ret |-> Some(out),
                 fetched |-> dl.fetched, copied |-> TRUE]

\* scraper._local_gif_for_src for a reference that encodes flag_id (the regular
\* expression matched): the mapping is loaded and looked up, nothing else
LocalGifForId(st0, flag_id) ==
    LET st1 == LoadFlagsMapping(st0)
    IN  [st |-> st1, ret |-> Get(st1.mem.id_to_path, flag_id)]

(***************************************************************************)
(* The sequential flag-store specification: one server process that        *)
(* resolves and looks up flags, restarts, and an operator who removes      *)
(* by-name files.                                                          *)
(***************************************************************************)
Store == [mem |-> flagsMap, file |-> mappingFile, raw |-> rawDir, byname |-> byNameDir]

\* `repeat`: the call has the arguments of the operation right before it, which
\* was a resolve that returned a reference
NoCall == [op |-> "init", id |-> <<>>, name |-> <<>>, resp |-> [st |-> "transport", len |-> 0],
           ret |-> None, fetched |-> FALSE, copied |-> FALSE, repeat |-> FALSE]

flagVars == <<flagsMap, mappingFile, last, ops>>
dirVars == <<rawDir, byNameDir>>
writerVars == <<pc, call, loc, objs, globalMap, inodes, tmpPath, mapPath, batch>>
cacheVars == <<cache, now, page, req, stamped>>
parseVars == <<request, result>>
vars == <<flagVars, dirVars, writerVars, cacheVars, parseVars>>

\* the variables of the other specifications, at rest
FlagsIdle ==
    /\ flagsMap = Unloaded
    /\ mappingFile = NoFile
    /\ last = NoCall
    /\ ops = 0
WritersIdle ==
    /\ pc = <<>> /\ call = <<>> /\ loc = <<>> /\ objs = <<>>
    /\ globalMap = "none" /\ inodes = <<>> /\ tmpPath = 0 /\ mapPath = 0
    /\ batch = <<>>
CacheIdle ==
    /\ cache = <<>> /\ now = 0 /\ page = 0 /\ req = <<>> /\ stamped = <<>>

ParseIdle == request = <<>> /\ result = <<>>

Init ==
    /\ flagsMap = Unloaded
    /\ mappingFile = NoFile
    /\ rawDir = {}
    /\ byNameDir = EmptyDict
    /\ last = NoCall
    /\ ops = 0
    /\ WritersIdle
    /\ CacheIdle
    /\ ParseIdle

SetStore(st) ==
    /\ flagsMap' = st.mem
    /\ mappingFile' = st.file
    /\ rawDir' = st.raw
    /\ byNameDir' = st.byname

\* a call of _ensure_flag_local(flag_id, team_name)
Resolve ==
    \E flag_id \in FlagIds, team_name \in TeamNames, resp \in Responses :
        LET r == EnsureFlagLocal(Store, flag_id, team_name, resp)
        IN  /\ SetStore(r.st)
            /\ last' = [op |-> "resolve", id |-> flag_id, name |-> team_name, resp |-> resp,
                        ret |-> r.ret, fetched |-> r.fetched, copied |-> r.copied,
                        repeat |-> /\ last.op = "resolve" /\ last.ret.some
                                   /\ last.id = flag_id /\ last.name = team_name]

\* a call of _local_gif_for_src on a reference that encodes flag_id
Lookup ==
    \E flag_id \in FlagIds :
        LET r == LocalGifForId(Store, flag_id)
        IN  /\ SetStore(r.st)
            /\ last' = [NoCall EXCEPT !.op = "lookup", !.id = flag_id, !.ret = r.ret]

\* the server process is restarted: _FLAGS_MAP is the empty dict again
Restart ==
    /\ flagsMap.loaded
    /\ flagsMap' = Unloaded
    /\ last' = [NoCall EXCEPT !.op = "restart"]
    /\ UNCHANGED <<mappingFile, rawDir, byNameDir>>

\* a by-name file is removed from outside the program
RemoveFile ==
    \E f \in DOMAIN byNameDir :
        /\ byNameDir' = [g \in DOMAIN byNameDir \ {f} |-> byNameDir[g]]
        /\ last' = [NoCall EXCEPT !.op = "remove", !.name = f]
        /\ UNCHANGED <<flagsMap, mappingFile, rawDir>>

Tick == ops < MaxOps /\ ops' = ops + 1 /\ UNCHANGED <<writerVars, cacheVars, parseVars>>

Next ==
    \/ Tick /\ Resolve
    \/ Tick /\ Lookup
    \/ Tick /\ Restart
    \/ Tick /\ RemoveFile

Spec == Init /\ [][Next]_vars

(***************************************************************************)
(* Properties of the flag resolver, checked under Spec.                    *)
(***************************************************************************)
\* the mapping a call works on: _FLAGS_MAP once loaded, else what mapping.json holds
Effective == IF flagsMap.loaded THEN MappingOf(flagsMap) ELSE mappingFile.data

\* C1: a second _ensure_flag_local call with the arguments of the call right before
\* it, which returned a reference, returns the same reference, leaves the by-name
\* directory as it was, and leaves id_to_path and id_to_name (in memory and in
\* mapping.json) unchanged, each holding one entry for the identifier: the returned
\* reference and the team name.
C1_Idempotent ==
    [][(last'.op = "resolve" /\ last'.repeat) =>
          /\ last'.ret = last.ret
          /\ byNameDir' = byNameDir
          /\ MappingOf(flagsMap') = MappingOf(flagsMap)
          /\ mappingFile' = mappingFile
          /\ last'.id \in DOMAIN flagsMap'.id_to_path
          /\ flagsMap'.id_to_path[last'.id] = last'.ret.v
          /\ last'.id \in DOMAIN flagsMap'.id_to_name
          /\ flagsMap'.id_to_name[last'.id] = last'.name
          /\ mappingFile'.exists /\ mappingFile'.data = MappingOf(flagsMap')]_vars

\* C1 witness: a repeated call has returned a reference
C1_Witness == last.op = "resolve" /\ last.repeat /\ last.ret.some

\* the first of base, base-2, base-3, ... that is not a file of `dir`
FirstFree(base, dir) ==
    IF base \notin DOMAIN dir THEN base
    ELSE LET free == {k \in 2 .. Cardinality(DOMAIN dir) + 2 :
                         Candidate(base, k) \notin DOMAIN dir}
         IN  Candidate(base, CHOOSE k \in free : \A j \in free : k <= j)

\* the identifiers other than `id` whose stored name differs from `name` and has the
\* same slug, and whose mapped by-name file is on disk
SameSlugOthers(id, name) ==
    {o \in FlagIds \ {id} :
        /\ o \in DOMAIN Effective.id_to_path /\ o \in DOMAIN Effective.id_to_name
        /\ Effective.id_to_path[o] \in DOMAIN byNameDir
        /\ Effective.id_to_name[o] # name
        /\ Slugify(Effective.id_to_name[o]) = Slugify(name)}

\* C2: when _ensure_flag_local copies a by-name file for a name while another
\* identifier, stored under a different name with the same slug, has its file on
\* disk, the new file is the first of base, base-2, base-3, ... not present on disk
\* (a suffixed name when base is taken), it is not the other identifier's file, both
\* files are on disk afterwards and the two identifiers have different id_to_path
\* entries.
C2_Disambiguation ==
    [][\A o \in FlagIds :
          (last'.op = "resolve" /\ last'.copied /\ o \in SameSlugOthers(last'.id, last'.name)) =>
              /\ last'.ret = Some(FirstFree(Slugify(last'.name), byNameDir))
              /\ last'.ret.v \notin DOMAIN byNameDir
              /\ DOMAIN byNameDir' = DOMAIN byNameDir \cup {last'.ret.v}
              /\ flagsMap'.id_to_path[last'.id] = last'.ret.v
              /\ flagsMap'.id_to_path[o] = Effective.id_to_path[o]
              /\ flagsMap'.id_to_path[o] # flagsMap'.id_to_path[last'.id]
              /\ mappingFile'.data.id_to_path = flagsMap'.id_to_path]_vars

\* C2 witness: the two names "Ab" and "ab" were resolved for two identifiers; the
\* files are ab.gif and ab-2.gif
C2_Witness ==
    /\ last.op = "resolve" /\ last.copied
    /\ last.ret = Some(Candidate(Slugify(last.name), 2))
    /\ \E o \in FlagIds \ {last.id} :
          /\ o \in DOMAIN flagsMap.id_to_name /\ flagsMap.id_to_name[o] # last.name
          /\ Slugify(flagsMap.id_to_name[o]) = Slugify(last.name)
          /\ o \in DOMAIN flagsMap.id_to_path
          /\ flagsMap.id_to_path[o] = Slugify(last.name)
          /\ {flagsMap.id_to_path[o], last.ret.v} \subseteq DOMAIN byNameDir

\* the flag image cannot be fetched: transport failure, non-success status, or a
\* payload under 100 bytes
FetchFails(resp) == resp.st # "ok" \/ resp.len < MinFlagBytes

\* C6: an _ensure_flag_local call whose image fetch fails returns nothing, writes no
\* raw and no by-name file, and leaves id_to_path, id_to_name and mapping.json as
\* they were.
C6_FetchFailure ==
    [][(last'.op = "resolve" /\ last'.fetched /\ FetchFails(last'.resp)) =>
          /\ last'.ret = None
          /\ rawDir' = rawDir
          /\ byNameDir' = byNameDir
          /\ MappingOf(flagsMap') = Effective
          /\ mappingFile' = mappingFile]_vars

\* C6 witness: a fetch of each failing kind was made by a call on a store that holds
\* a mapping already
C6_Witness ==
    /\ last.op = "resolve" /\ last.fetched /\ FetchFails(last.resp)
    /\ last.resp.st = "ok"
    /\ DOMAIN flagsMap.id_to_path # {}

\* C7: when a lookup loads the mapping, every value of the loaded id_to_path is a
\* file on disk, and so is the reference the lookup returns.
C7_LoadedPathsExist ==
    [][(last'.op = "lookup" /\ ~flagsMap.loaded) =>
          /\ \A id \in DOMAIN flagsMap'.id_to_path :
                flagsMap'.id_to_path[id] \in DOMAIN byNameDir'
          /\ last'.ret.some => last'.ret.v \in DOMAIN byNameDir']_vars

(***************************************************************************)
(* The resolver as a function: _ensure_flag_local called with any name,    *)
(* the empty one included (the extractor never passes it, the function     *)
(* accepts it), between restarts and removals of by-name files.            *)
(***************************************************************************)
\* a call of _ensure_flag_local(flag_id, "")
ResolveUnnamed ==
    \E flag_id \in FlagIds, resp \in Responses :
        LET r == EnsureFlagLocal(Store, flag_id, <<>>, resp)
        IN  /\ SetStore(r.st)
            /\ last' = [op |-> "resolve", id |-> flag_id, name |-> <<>>, resp |-> resp,
                        ret |-> r.ret, fetched |-> r.fetched, copied |-> r.copied,
                        repeat |-> FALSE]

NextResolver ==
    \/ Tick /\ Resolve
    \/ Tick /\ ResolveUnnamed
    \/ Tick /\ Restart
    \/ Tick /\ RemoveFile

SpecResolver == Init /\ [][NextResolver]_vars

\* the call finds the identifier mapped to a by-name file that is on disk
HitCase(id) ==
    /\ id \in DOMAIN Effective.id_to_path
    /\ Effective.id_to_path[id] # <<>>
    /\ Effective.id_to_path[id] \in DOMAIN byNameDir

\* the call brings a name: a non-empty one that differs from the stored one
NameLearned(id, name) == name # <<>> /\ Get(Effective.id_to_name, id) # Some(name)

\* C11: an _ensure_flag_local call for an identifier whose id_to_path entry exists
\* with its file on disk returns that entry, makes no fetch, creates and copies no
\* file, leaves id_to_path as it was, sets id_to_name[id] to the name exactly when
\* the name is non-empty and differs from the stored one, and rewrites mapping.json
\* exactly then.
C11_HitPath ==
    [][(last'.op = "resolve" /\ HitCase(last'.id)) =>
          /\ last'.ret = Some(Effective.id_to_path[last'.id])
          /\ ~last'.fetched /\ ~last'.copied
          /\ rawDir' = rawDir /\ byNameDir' = byNameDir
          /\ flagsMap'.id_to_path = Effective.id_to_path
          /\ IF NameLearned(last'.id, last'.name)
             THEN /\ flagsMap'.id_to_name = Put(Effective.id_to_name, last'.id, last'.name)
                  /\ mappingFile' = [exists |-> TRUE, data |-> MappingOf(flagsMap')]
             ELSE /\ flagsMap'.id_to_name = Effective.id_to_name
                  /\ mappingFile' = mappingFile]_vars

\* C11 witness: a hit that learned a new name over a stored one (last write wins)
\* and rewrote mapping.json
C11_Witness ==
    /\ last.op = "resolve" /\ ~last.fetched /\ last.ret.some
    /\ flagsMap.id_to_name[last.id] = <<"a", "b">>
    /\ mappingFile.data.id_to_name[last.id] = <<"a", "b">>
    /\ flagsMap.id_to_path[last.id] = Unknown

(***************************************************************************)
(* Sequences of _ensure_flag_local calls on a store that starts empty and  *)
(* that nothing else touches: no by-name file is removed.                  *)
(***************************************************************************)
NextCalls ==
    \/ Tick /\ Resolve
    \/ Tick /\ ResolveUnnamed
    \/ Tick /\ Restart

SpecCalls == Init /\ [][NextCalls]_vars

\* C14: id_to_path, in memory and in mapping.json, maps no two identifiers to the
\* same by-name file, every mapped file holds the image of its own identifier, and
\* a call that returns a reference returns a file holding the image of the
\* identifier it was called for.
C14_Injective ==
    /\ \A m \in {Effective, mappingFile.data} :
          /\ \A a, b \in DOMAIN m.id_to_path :
                a # b => m.id_to_path[a] # m.id_to_path[b]
          /\ \A a \in DOMAIN m.id_to_path :
                /\ m.id_to_path[a] \in DOMAIN byNameDir
                /\ byNameDir[m.id_to_path[a]] = a
    /\ (last.op = "resolve" /\ last.ret.some) =>
          /\ last.ret.v \in DOMAIN byNameDir
          /\ byNameDir[last.ret.v] = last.id

\* C14 witness: two identifiers whose names have one slug are mapped to two files,
\* and a later call for the second returned its own file
C14_Witness ==
    /\ last.op = "resolve" /\ last.ret.some /\ ~last.copied
    /\ DOMAIN flagsMap.id_to_path = FlagIds
    /\ \E o \in FlagIds \ {last.id} :
          /\ flagsMap.id_to_path[o] = <<"a", "b">>
          /\ flagsMap.id_to_path[last.id] = Candidate(<<"a", "b">>, 2)
    /\ last.ret.v = Candidate(<<"a", "b">>, 2)

(***************************************************************************)
(* The writers of mapping.json, step by step: the server's request threads *)
(* (app.run serves each request in a thread of its own; scraper.py takes   *)
(* no lock) and the batch utility download_flags.main, a process of its    *)
(* own.  A file is an inode; a path names an inode; an open file keeps its *)
(* inode when the path is renamed over.                                    *)
(***************************************************************************)
Threads == {"t1", "t2"}

\* the two concurrent requests: different identifiers, two names with one slug
WriterCalls == [t \in Threads |-> IF t = "t1" THEN [id |-> Str(1), name |-> <<"A", "b">>]
                                             ELSE [id |-> Str(2), name |-> <<"a", "b">>]]

\* len(json.dumps(mapping, indent=2)): 38 characters of frame, and per entry the
\* key, the value and 10 (12 between entries) characters of quotes and layout
RECURSIVE SumLen(_, _, _)
SumLen(d, keys, extra) ==
    IF keys = {} THEN 0
    ELSE LET k == CHOOSE x \in keys : TRUE
         IN  Len(k) + Len(d[k]) + extra + 10 + SumLen(d, keys \ {k}, extra)
DictLen(d, extra) ==
    IF DOMAIN d = {} THEN 2
    ELSE 2 + SumLen(d, DOMAIN d, extra) + 2 * (Cardinality(DOMAIN d) - 1) + 4
\* an id_to_path value is "/static/flags/by-name/" + name + ".gif": 26 more characters
JsonLen(m) == 38 + DictLen(m.id_to_path, 26) + DictLen(m.id_to_name, 0)

\* a file's content: empty (just truncated), a complete JSON document, or corrupt
\* (a document followed by the tail of a longer one)
EmptyContent == [kind |-> "empty", data |-> EmptyMapping, len |-> 0]

\* open(path, "w"): the inode the path names is truncated, or a new one is made
OpenW(path) ==
    IF path = 0
    THEN [ino |-> Len(inodes) + 1, inodes |-> Append(inodes, EmptyContent)]
    ELSE [ino |-> path, inodes |-> [inodes EXCEPT ![path] = EmptyContent]]

\* the buffered document reaches the file when it is closed: it is written from
\* offset 0 over what the inode holds
WriteAt0(content, m) ==
    IF JsonLen(m) >= content.len
    THEN [kind |-> "complete", data |-> m, len |-> JsonLen(m)]
    ELSE [kind |-> "corrupt", data |-> m, len |-> content.len]

\* with open(mapping.json) as f: json.load(f)
ReadMapping ==
    IF mapPath = 0 THEN [ok |-> TRUE, data |-> EmptyMapping]
    ELSE IF inodes[mapPath].kind = "complete"
    THEN [ok |-> TRUE, data |-> inodes[mapPath].data]
    ELSE [ok |-> FALSE, data |-> EmptyMapping]

NoLocals == [flags |-> "none", out |-> <<>>, fd |-> 0, buf |-> EmptyMapping,
             ret |-> None, err |-> "none"]

\* the store as thread t sees it: its `flags` dict and the directories
View(t) == [mem  |-> [loaded |-> TRUE, id_to_path |-> objs[loc[t].flags].id_to_path,
                      id_to_name |-> objs[loc[t].flags].id_to_name],
            file |-> NoFile, raw |-> rawDir, byname |-> byNameDir]

Goto(t, label) == pc' = [pc EXCEPT ![t] = label]

\* line 57: if _FLAGS_MAP: return _FLAGS_MAP
T_Load ==
    \E t \in Threads :
    /\ pc[t] = "load"
    /\ IF globalMap # "none"
       THEN /\ loc' = [loc EXCEPT ![t].flags = globalMap]
            /\ Goto(t, "check")
       ELSE /\ Goto(t, "read")
            /\ UNCHANGED loc
    /\ UNCHANGED <<flagVars, cacheVars, parseVars, call, objs, globalMap, inodes, tmpPath, mapPath, batch, dirVars>>

\* lines 59-64: the file is read and _FLAGS_MAP is bound to the new dict; a file
\* that is no JSON document makes json.load raise
T_Read ==
    \E t \in Threads :
    /\ pc[t] = "read"
    /\ IF ReadMapping.ok
       THEN /\ objs' = [objs EXCEPT ![t] = ReadMapping.data]
            /\ globalMap' = t
            /\ loc' = [loc EXCEPT ![t].flags = t]
            /\ Goto(t, "check")
       ELSE /\ loc' = [loc EXCEPT ![t].err = "JSONDecodeError"]
            /\ Goto(t, "error")
            /\ UNCHANGED <<objs, globalMap>>
    /\ UNCHANGED <<flagVars, cacheVars, parseVars, call, inodes, tmpPath, mapPath, batch, dirVars>>

\* lines 92-98: the hit path
T_Check ==
    \E t \in Threads :
    /\ pc[t] = "check"
    /\ LET existing == ExistingPath(View(t), call[t].id)
           o == loc[t].flags
       IN  IF Truthy(existing) /\ Exists(View(t), existing.v)
           THEN IF /\ call[t].name # <<>>
                   /\ Get(objs[o].id_to_name, call[t].id) # Some(call[t].name)
                THEN /\ objs' = [objs EXCEPT ![o].id_to_name = Put(@, call[t].id, call[t].name)]
                     /\ loc' = [loc EXCEPT ![t].ret = existing]
                     /\ Goto(t, "open")
                ELSE /\ loc' = [loc EXCEPT ![t].ret = existing]
                     /\ Goto(t, "done")
                     /\ UNCHANGED objs
           ELSE /\ Goto(t, "download")
                /\ UNCHANGED <<objs, loc>>
    /\ UNCHANGED <<flagVars, cacheVars, parseVars, call, globalMap, inodes, tmpPath, mapPath, batch, dirVars>>

\* lines 101-103: _download_flag_gif
T_Download ==
    \E t \in Threads :
    /\ pc[t] = "download"
    /\ \E resp \in Responses :
          LET dl == DownloadFlagGif(View(t), call[t].id, resp)
          IN  /\ rawDir' = dl.st.raw
              /\ Goto(t, IF dl.ok THEN "pick" ELSE "done")
    /\ UNCHANGED <<flagVars, cacheVars, parseVars, call, loc, objs, globalMap, inodes, tmpPath, mapPath, batch, byNameDir>>

\* lines 106-116: the by-name path is chosen
T_Pick ==
    \E t \in Threads :
    /\ pc[t] = "pick"
    /\ LET base == Slugify(call[t].name)
       IN  loc' = [loc EXCEPT ![t].out =
                      FindOutPath(View(t), call[t].id, base, [out |-> base, suffix |-> 2])]
    /\ Goto(t, "copy")
    /\ UNCHANGED <<flagVars, cacheVars, parseVars, call, objs, globalMap, inodes, tmpPath, mapPath, batch, dirVars>>

\* line 117: shutil.copyfile
T_Copy ==
    \E t \in Threads :
    /\ pc[t] = "copy"
    /\ byNameDir' = Put(byNameDir, loc[t].out, call[t].id)
    /\ Goto(t, "update")
    /\ UNCHANGED <<flagVars, cacheVars, parseVars, call, loc, objs, globalMap, inodes, tmpPath, mapPath, batch, rawDir>>

\* lines 118-123: the dict is updated
T_Update ==
    \E t \in Threads :
    /\ pc[t] = "update"
    /\ LET o == loc[t].flags
       IN  objs' = [objs EXCEPT ![o].id_to_path = Put(@, call[t].id, loc[t].out),
                                ![o].id_to_name = Put(@, call[t].id, call[t].name)]
    /\ loc' = [loc EXCEPT ![t].ret = Some(loc[t].out)]
    /\ Goto(t, "open")
    /\ UNCHANGED <<flagVars, cacheVars, parseVars, call, globalMap, inodes, tmpPath, mapPath, batch, dirVars>>

\* line 50: open(tmp, "w")
T_Open ==
    \E t \in Threads :
    /\ pc[t] = "open"
    /\ inodes' = OpenW(tmpPath).inodes
    /\ tmpPath' = OpenW(tmpPath).ino
    /\ loc' = [loc EXCEPT ![t].fd = OpenW(tmpPath).ino]
    /\ Goto(t, "dump")
    /\ UNCHANGED <<flagVars, cacheVars, parseVars, call, objs, globalMap, mapPath, batch, dirVars>>

\* line 51: json.dump fills the file object's buffer
T_Dump ==
    \E t \in Threads :
    /\ pc[t] = "dump"
    /\ loc' = [loc EXCEPT ![t].buf = objs[loc[t].flags]]
    /\ Goto(t, "close")
    /\ UNCHANGED <<flagVars, cacheVars, parseVars, call, objs, globalMap, inodes, tmpPath, mapPath, batch, dirVars>>

\* the end of the with block: the buffer is flushed to the inode and the file closed
T_Close ==
    \E t \in Threads :
    /\ pc[t] = "close"
    /\ inodes' = [inodes EXCEPT ![loc[t].fd] = WriteAt0(@, loc[t].buf)]
    /\ Goto(t, "replace")
    /\ UNCHANGED <<flagVars, cacheVars, parseVars, call, loc, objs, globalMap, tmpPath, mapPath, batch, dirVars>>

\* line 52: os.replace(tmp, mapping.json); it raises when tmp is gone
T_Replace ==
    \E t \in Threads :
    /\ pc[t] = "replace"
    /\ IF tmpPath = 0
       THEN /\ loc' = [loc EXCEPT ![t].err = "FileNotFoundError"]
            /\ Goto(t, "error")
            /\ UNCHANGED <<tmpPath, mapPath>>
       ELSE /\ mapPath' = tmpPath
            /\ tmpPath' = 0
            /\ Goto(t, "done")
            /\ UNCHANGED loc
    /\ UNCHANGED <<flagVars, cacheVars, parseVars, call, objs, globalMap, inodes, batch, dirVars>>

\* what download_flags.build_id_to_name_map can scrape from the schedules page
ScrapedMaps == { EmptyDict,
                 (Str(1) :> <<"A", "b">>),
                 (Str(1) :> <<"A", "b">>) @@ (Str(2) :> <<"a", "b">>) }

\* the orders a dict with these keys can be iterated in (its insertion order)
Orders(keys) == {q \in [1 .. Cardinality(keys) -> keys] : \A i, j \in DOMAIN q : i # j => q[i] # q[j]}

\* download_flags.write_by_name_gifs over the ids in `order`:
\* acc = [used: used_names, paths: id_to_path, byname: the by-name directory]
RECURSIVE WriteByNameGifs(_, _, _, _)
WriteByNameGifs(id_to_name, order, raw, acc) ==
    IF order = <<>> THEN acc
    ELSE LET sid == Head(order)
             base == Slugify(id_to_name[sid])
             count == IF base \in DOMAIN acc.used THEN acc.used[base] ELSE 0
             out_name == IF count = 0 THEN base ELSE Candidate(base, count + 1)
         IN  IF sid \notin raw
             THEN WriteByNameGifs(id_to_name, Tail(order), raw, acc)
             ELSE WriteByNameGifs(id_to_name, Tail(order), raw,
                     [used   |-> Put(acc.used, base, count + 1),
                      paths  |-> Put(acc.paths, sid, out_name),
                      byname |-> Put(acc.byname, out_name, sid)])

\* dict.update: the entries of `new` replace those of `old`
Update(old, new) == [k \in DOMAIN old \cup DOMAIN new |-> IF k \in DOMAIN new THEN new[k] ELSE old[k]]

\* download_flags.main, lines 153-165: existing paths whose file exists are kept,
\* newly created paths fill in the rest
MergedPaths(existing, new, dir) ==
    LET kept == {sid \in DOMAIN existing : existing[sid] \in DOMAIN dir}
    IN  [sid \in kept \cup DOMAIN new |-> IF sid \in kept THEN existing[sid] ELSE new[sid]]

BatchStart == [pc |-> "start", existing |-> EmptyMapping, id_to_name |-> EmptyDict,
               new_paths |-> EmptyDict, mapping |-> EmptyMapping, fd |-> 0,
               buf |-> EmptyMapping, err |-> "none"]

\* main, line 131: _load_existing_mapping; only FileNotFoundError is caught
B_Load ==
    /\ batch.pc = "start"
    /\ batch' = IF ReadMapping.ok
                THEN [batch EXCEPT !.pc = "download", !.existing = ReadMapping.data]
                ELSE [batch EXCEPT !.pc = "error", !.err = "JSONDecodeError"]
    /\ UNCHANGED <<flagVars, cacheVars, parseVars, pc, call, loc, objs, globalMap, inodes, tmpPath, mapPath, dirVars>>

\* main, lines 135-139: download_gif for every id; `got` are the ids whose image
\* the site serves
B_Download ==
    /\ batch.pc = "download"
    /\ \E got \in SUBSET FlagIds : rawDir' = rawDir \cup got
    /\ batch' = [batch EXCEPT !.pc = "names"]
    /\ UNCHANGED <<flagVars, cacheVars, parseVars, pc, call, loc, objs, globalMap, inodes, tmpPath, mapPath, byNameDir>>

\* main, lines 143-148: the scraped names are merged over the existing ones
B_Names ==
    /\ batch.pc = "names"
    /\ \E scraped \in ScrapedMaps :
          batch' = [batch EXCEPT !.pc = "copy",
                                 !.id_to_name = Update(batch.existing.id_to_name, scraped)]
    /\ UNCHANGED <<flagVars, cacheVars, parseVars, pc, call, loc, objs, globalMap, inodes, tmpPath, mapPath, dirVars>>

\* main, line 151: write_by_name_gifs
B_Copy ==
    /\ batch.pc = "copy"
    /\ \E order \in Orders(DOMAIN batch.id_to_name) :
          LET r == WriteByNameGifs(batch.id_to_name, order, rawDir,
                                   [used |-> EmptyDict, paths |-> EmptyDict, byname |-> byNameDir])
          IN  /\ byNameDir' = r.byname
              /\ batch' = [batch EXCEPT !.pc = "merge", !.new_paths = r.paths]
    /\ UNCHANGED <<flagVars, cacheVars, parseVars, pc, call, loc, objs, globalMap, inodes, tmpPath, mapPath, rawDir>>

\* main, lines 156-170
B_Merge ==
    /\ batch.pc = "merge"
    /\ batch' = [batch EXCEPT !.pc = "open",
                   !.mapping = [id_to_path |-> MergedPaths(batch.existing.id_to_path,
                                                           batch.new_paths, byNameDir),
                                id_to_name |-> batch.id_to_name]]
    /\ UNCHANGED <<flagVars, cacheVars, parseVars, pc, call, loc, objs, globalMap, inodes, tmpPath, mapPath, dirVars>>

\* main, line 172: open(MAPPING_PATH, "w") truncates mapping.json itself
B_Open ==
    /\ batch.pc = "open"
    /\ inodes' = OpenW(mapPath).inodes
    /\ mapPath' = OpenW(mapPath).ino
    /\ batch' = [batch EXCEPT !.pc = "dump", !.fd = OpenW(mapPath).ino]
    /\ UNCHANGED <<flagVars, cacheVars, parseVars, pc, call, loc, objs, globalMap, tmpPath, dirVars>>

\* main, line 173: json.dump fills the buffer
B_Dump ==
    /\ batch.pc = "dump"
    /\ batch' = [batch EXCEPT !.pc = "close", !.buf = batch.mapping]
    /\ UNCHANGED <<flagVars, cacheVars, parseVars, pc, call, loc, objs, globalMap, inodes, tmpPath, mapPath, dirVars>>

\* the end of the with block
B_Close ==
    /\ batch.pc = "close"
    /\ inodes' = [inodes EXCEPT ![batch.fd] = WriteAt0(@, batch.buf)]
    /\ batch' = [batch EXCEPT !.pc = "done"]
    /\ UNCHANGED <<flagVars, cacheVars, parseVars, pc, call, loc, objs, globalMap, tmpPath, mapPath, dirVars>>

Final == {"done", "error", "crashed"}

\* the machine stops (power loss, kill -9): every process ends where it is and the
\* buffers that were not flushed are lost
Crash ==
    /\ \/ \E t \in Threads : pc[t] \notin Final
       \/ batch.pc \notin Final \cup {"start"}
    /\ pc' = [t \in Threads |-> IF pc[t] \in Final THEN pc[t] ELSE "crashed"]
    /\ batch' = IF batch.pc \in Final THEN batch ELSE [batch EXCEPT !.pc = "crashed"]
    /\ UNCHANGED <<flagVars, cacheVars, parseVars, call, loc, objs, globalMap, inodes, tmpPath, mapPath, dirVars>>

InitWriters ==
    /\ FlagsIdle
    /\ CacheIdle
    /\ ParseIdle
    /\ rawDir = {}
    /\ byNameDir = EmptyDict
    /\ pc = [t \in Threads |-> "load"]
    /\ call = WriterCalls
    /\ loc = [t \in Threads |-> NoLocals]
    /\ objs = [t \in Threads |-> EmptyMapping]
    /\ globalMap = "none"
    /\ inodes = <<>>
    /\ tmpPath = 0
    /\ mapPath = 0
    /\ batch = BatchStart

NextWriters ==
    \/ T_Load \/ T_Read \/ T_Check \/ T_Download \/ T_Pick \/ T_Copy
    \/ T_Update \/ T_Open \/ T_Dump \/ T_Close \/ T_Replace
    \/ B_Load \/ B_Download \/ B_Names \/ B_Copy \/ B_Merge \/ B_Open \/ B_Dump \/ B_Close
    \/ Crash

SpecWriters == InitWriters /\ [][NextWriters]_vars

\* C3: mapping.json, whenever it exists, holds a complete mapping: at no point of a
\* write, and so after a crash at any point, is it empty, partial or corrupt.
C3_MappingFileAtomic == mapPath # 0 => inodes[mapPath].kind = "complete"

\* C4: when two _ensure_flag_local calls on different identifiers have both ended
\* (the batch utility not running), neither has failed, mapping.json is a complete
\* document and it holds the entry of each call that returned a reference.
C4_Serialized ==
    (/\ batch.pc = "start"
     /\ call["t1"].id # call["t2"].id
     /\ \A t \in Threads : pc[t] \in {"done", "error"}) =>
        /\ \A t \in Threads : pc[t] = "done"
        /\ \A t \in Threads : loc[t].ret.some =>
              /\ mapPath # 0
              /\ inodes[mapPath].kind = "complete"
              /\ call[t].id \in DOMAIN inodes[mapPath].data.id_to_path
              /\ inodes[mapPath].data.id_to_path[call[t].id] = loc[t].ret.v

(***************************************************************************)
(* The schedule-markup cache: fetch_schedules_html, step by step, in the   *)
(* request threads of the server.                                          *)
(***************************************************************************)
CacheTtlSeconds == 60

NoRequest == [pc |-> "idle", html |-> 0, ret |-> 0, requested |-> FALSE,
              inWindow |-> FALSE, expect |-> 0]

InitCache ==
    /\ FlagsIdle /\ WritersIdle /\ ParseIdle
    /\ rawDir = {} /\ byNameDir = EmptyDict
    /\ cache = [value |-> 0, fetched_at |-> 0]
    /\ now = CacheTtlSeconds
    /\ page = 1
    /\ req = [t \in Threads |-> NoRequest]
    /\ stamped = [html |-> 0, at |-> 0]

\* scraper._is_cache_fresh
IsCacheFresh == (now - cache.fetched_at) < CacheTtlSeconds /\ cache.value # 0

otherVars == <<flagVars, dirVars, writerVars, parseVars>>

\* line 147: a call arrives and tests the cache; `inWindow` and `expect` record
\* whether it arrived within the window of the last completed fetch, and that
\* fetch's markup
F_Check ==
    \E t \in Threads :
    /\ req[t].pc = "idle"
    /\ req' = [req EXCEPT ![t] =
                 [NoRequest EXCEPT !.pc = IF IsCacheFresh THEN "hit" ELSE "fetch",
                                   !.inWindow = stamped.html # 0 /\ (now - stamped.at) < CacheTtlSeconds,
                                   !.expect = stamped.html]]
    /\ UNCHANGED <<cache, now, page, stamped, otherVars>>

\* line 148: return _CACHE["html"]["value"]
F_Hit ==
    \E t \in Threads :
    /\ req[t].pc = "hit"
    /\ req' = [req EXCEPT ![t].pc = "done", ![t].ret = cache.value]
    /\ UNCHANGED <<cache, now, page, stamped, otherVars>>

\* lines 159-162: requests.get answers with the page the site serves now
F_Fetch ==
    \E t \in Threads :
    /\ req[t].pc = "fetch"
    /\ req' = [req EXCEPT ![t].pc = "store", ![t].html = page, ![t].requested = TRUE]
    /\ UNCHANGED <<cache, now, page, stamped, otherVars>>

\* lines 159-160: requests.get or raise_for_status raises; the call ends in an error
F_FetchFails ==
    \E t \in Threads :
    /\ req[t].pc = "fetch"
    /\ req' = [req EXCEPT ![t].pc = "error", ![t].requested = TRUE]
    /\ UNCHANGED <<cache, now, page, stamped, otherVars>>

\* line 163: _CACHE["html"]["value"] = html_text
F_Store ==
    \E t \in Threads :
    /\ req[t].pc = "store"
    /\ cache' = [cache EXCEPT !.value = req[t].html]
    /\ req' = [req EXCEPT ![t].pc = "stamp"]
    /\ UNCHANGED <<now, page, stamped, otherVars>>

\* lines 164-165: fetched_at = time.time(); return html_text
F_Stamp ==
    \E t \in Threads :
    /\ req[t].pc = "stamp"
    /\ cache' = [cache EXCEPT !.fetched_at = now]
    /\ stamped' = [html |-> req[t].html, at |-> now]
    /\ req' = [req EXCEPT ![t].pc = "done", ![t].ret = req[t].html]
    /\ UNCHANGED <<now, page, otherVars>>

\* the response has been sent; the thread serves the next request
F_Return ==
    \E t \in Threads :
    /\ req[t].pc \in {"done", "error"}
    /\ req' = [req EXCEPT ![t] = NoRequest]
    /\ UNCHANGED <<cache, now, page, stamped, otherVars>>

\* time passes
ClockTick ==
    /\ now + ClockStep <= MaxClock
    /\ now' = now + ClockStep
    /\ UNCHANGED <<cache, page, req, stamped, otherVars>>

\* the site publishes a new version of the schedules page
PageChanges ==
    /\ page < MaxPage
    /\ page' = page + 1
    /\ UNCHANGED <<cache, now, req, stamped, otherVars>>

NextCache ==
    \/ F_Check \/ F_Hit \/ F_Fetch \/ F_FetchFails \/ F_Store \/ F_Stamp \/ F_Return
    \/ ClockTick \/ PageChanges

SpecCache == InitCache /\ [][NextCache]_vars

\* C5: a fetch_schedules_html call that arrived within 60 seconds of the last
\* completed fetch returns the markup that fetch cached and makes no request.
C5_FreshWindow ==
    \A t \in Threads :
        (req[t].pc = "done" /\ req[t].inWindow) =>
            /\ req[t].ret = req[t].expect
            /\ ~req[t].requested

(***************************************************************************)
(* The schedule extractor: scraper.parse_schedules_html.  The markup is    *)
(* modelled by what the extractor reads from it: per .match_update card    *)
(* its <p>, <small>, .teamname nodes, first link and .match_result; per    *)
(* table row its cells.  A text is a sequence of characters; a reference   *)
(* (src, href) is a sequence of tokens: a leading "data:", "//" or "/", a   *)
(* directory token "flags/" or "cricflag/", digits, an extension.          *)
(***************************************************************************)
Strip(s) == StripChars(s, Whitespace)

\* F(x), with the argument computed before the call as Python does
Call(F(_), x) == CHOOSE r \in {F(y) : y \in {x}} : TRUE

\* str.replace(sub, ""): every occurrence of sub, left to right, is removed
RECURSIVE RemoveAll(_, _)
RemoveAll(s, sub) ==
    IF sub = <<>> \/ Len(s) < Len(sub) THEN s
    ELSE IF SubSeq(s, 1, Len(sub)) = sub
         THEN RemoveAll(SubSeq(s, Len(sub) + 1, Len(s)), sub)
         ELSE <<Head(s)>> \o RemoveAll(Tail(s), sub)

\* sep.join(parts)
RECURSIVE Join(_, _)
Join(parts, sep) ==
    IF parts = <<>> THEN <<>>
    ELSE IF Len(parts) = 1 THEN parts[1]
    ELSE parts[1] \o sep \o Join(Tail(parts), sep)

\* the digits that follow position i of a reference
RECURSIVE DigitRun(_, _)
DigitRun(src, i) ==
    IF i <= Len(src) /\ src[i] \in Range(Digits)
    THEN <<src[i]>> \o DigitRun(src, i + 1) ELSE <<>>

\* re.search(r"(?:cricflag|flags)/([0-9]+)\.(?:png|gif)", src): group 1 of the
\* leftmost match
FlagMatchAt(src, i) ==
    LET d == DigitRun(src, i + 1)
    IN  /\ src[i] \in {"cricflag/", "flags/"}
        /\ d # <<>>
        /\ i + Len(d) + 1 <= Len(src)
        /\ src[i + Len(d) + 1] \in {".png", ".gif"}
FlagIdOf(src) ==
    IF \E i \in DOMAIN src : FlagMatchAt(src, i)
    THEN LET i == CHOOSE k \in DOMAIN src :
                     FlagMatchAt(src, k) /\ \A j \in 1..(k - 1) : ~FlagMatchAt(src, j)
         IN  Some(DigitRun(src, i + 1))
    ELSE None

\* the reference "/static/flags/by-name/<name>.gif" the resolver hands out
LocalRef(name) == <<"/static/flags/by-name/">> \o name \o <<".gif">>

\* scraper._local_gif_for_src
LocalGifForSrc(st, src) ==
    IF ~Truthy(src) THEN [st |-> st, ret |-> None]
    ELSE LET m == FlagIdOf(src.v)
         IN  IF ~m.some THEN [st |-> st, ret |-> None]
             ELSE LET lk == LocalGifForId(st, m.v)
                  IN  [st |-> lk.st,
                       ret |-> IF lk.ret.some THEN Some(LocalRef(lk.ret.v)) ELSE None]

\* mutant: the prefix rules are applied before the local lookup
NormSrcPrefixFirst(st, src) ==
    IF ~Truthy(src) THEN [st |-> st, ret |-> None]
    ELSE IF Head(src.v) = "data:" THEN [st |-> st, ret |-> None]
    ELSE IF Head(src.v) = "//" THEN [st |-> st, ret |-> Some(<<"https:">> \o src.v)]
    ELSE IF Head(src.v) = "/" THEN [st |-> st, ret |-> Some(<<"https://hamariweb.com">> \o src.v)]
    ELSE LET Rest(local) == [st |-> local.st,
                             ret |-> IF Truthy(local.ret) THEN local.ret ELSE src]
         IN  Rest(LocalGifForSrc(st, src))

\* scraper._norm_src
NormSrc(st, src) ==
    LET Rest(local) ==
            [st  |-> local.st,
             ret |-> IF Truthy(local.ret) THEN local.ret
                     ELSE IF Head(src.v) = "data:" THEN None
                     ELSE IF Head(src.v) = "//" THEN Some(<<"https:">> \o src.v)
                     ELSE IF Head(src.v) = "/" THEN Some(<<"https://hamariweb.com">> \o src.v)
                     ELSE src]
    IN  IF ~Truthy(src) THEN [st |-> st, ret |-> None]
        ELSE Rest(LocalGifForSrc(st, src))

\* the enrichment both passes apply to one team image (lines 235-243, 308-316):
\* resolve the flag when the reference and the name are both non-empty and the
\* reference encodes an identifier, else normalise the reference
TeamImage(st, raw, name, net) ==
    LET m == IF Truthy(raw) /\ name # <<>> THEN FlagIdOf(raw.v) ELSE None
        Or(e) == IF Truthy(e.ret) THEN [st |-> e.st, ret |-> Some(LocalRef(e.ret.v))]
                 ELSE NormSrc(e.st, raw)
    IN  Or(IF m.some THEN EnsureFlagLocal(st, m.v, name, net[m.v])
           ELSE [st |-> st, ret |-> None, fetched |-> FALSE, copied |-> FALSE])

\* mutant: the discard test does not look at time_or_venue
SkipIgnoringTime(title, teams, time) ==
    ~(\/ (title # <<>> /\ Strip(title) # <<>>)
      \/ (teams # <<>> /\ Len(teams) > 0))
\* the discard test of both passes (lines 258 and 350)
Skip(title, teams, time) ==
    ~(\/ (title # <<>> /\ Strip(title) # <<>>)
      \/ (teams # <<>> /\ Len(teams) > 0)
      \/ (Truthy(time) /\ Strip(time.v) # <<>>))

\* ---- the card pass: scraper._parse_match_updates ----
\* title/status of a card (lines 210-217)
StatusText(card) ==
    IF card.p.present /\ card.p.small.some THEN Some(Strip(card.p.small.v)) ELSE None
CardTitle(card) ==
    LET raw_title == IF card.p.present THEN card.p.raw_title ELSE <<>>
    IN  IF card.p.present /\ card.p.small.some
        THEN Strip(RemoveAll(raw_title, StatusText(card).v))
        ELSE raw_title

\* name of a .teamname node (lines 224-230): the first span whose class is not
\* "score", else the text of the node
NameText(tn) ==
    IF \E i \in DOMAIN tn.spans : ~tn.spans[i].score
    THEN LET i == CHOOSE k \in DOMAIN tn.spans :
                     ~tn.spans[k].score /\ \A j \in 1..(k - 1) : tn.spans[j].score
         IN  Strip(tn.spans[i].text)
    ELSE tn.text

\* the loop over the .teamname nodes (lines 223-243)
RECURSIVE CardTeamNodes(_, _, _)
CardTeamNodes(acc, nodes, net) ==
    LET name == NameText(Head(nodes))
        Add(img) == [st          |-> img.st,
                     teams       |-> IF name # <<>> THEN Append(acc.teams, name)
                                     ELSE acc.teams,
                     team_images |-> Append(acc.team_images, img.ret)]
        Rest(a) == CardTeamNodes(a, Tail(nodes), net)
    IN  IF nodes = <<>> THEN acc
        ELSE Call(Rest, Add(TeamImage(acc.st, Head(nodes).img, name, net)))

\* lines 244-246
TruncateTeams(acc) ==
    IF Len(acc.teams) > 2
    THEN [acc EXCEPT !.teams = SubSeq(@, 1, 2), !.team_images = SubSeq(@, 1, 2)]
    ELSE acc

\* one iteration of the loop over the cards (lines 208-268)
ParseCard(st, card, net) ==
    LET title == CardTitle(card)
        time_or_venue == card.res
        Item(t, href) ==
            [st   |-> href.st,
             skip |-> Skip(title, t.teams, time_or_venue),
             item |-> [title |-> title, teams |-> t.teams, team_images |-> t.team_images,
                       status |-> StatusText(card), time_or_venue |-> time_or_venue,
                       link |-> href.ret]]
        Link(t) == Item(t, NormSrc(t.st, card.link))
    IN  Call(Link, TruncateTeams(CardTeamNodes([st |-> st, teams |-> <<>>, team_images |-> <<>>],
                                               card.teamnodes, net)))

\* the loop over the cards; an entry that is not skipped is appended
Collect(acc, c) ==
    [st |-> c.st, items |-> IF c.skip THEN acc.items ELSE Append(acc.items, c.item)]

RECURSIVE ParseMatchUpdates(_, _, _)
ParseMatchUpdates(acc, cards, net) ==
    LET Rest(a) == ParseMatchUpdates(a, Tail(cards), net)
    IN  IF cards = <<>> THEN acc
        ELSE Call(Rest, Collect(acc, ParseCard(acc.st, Head(cards), net)))

\* ---- the table pass: scraper._parse_schedule_table ----
\* [A-Za-z0-9_], the characters \b does not separate
IsWordChar(c) == c \in Range(Upper) \cup Range(LowerCase) \cup Range(Digits) \cup {"_"}

\* re.search(r"\bPST\b|AM|PM", text, re.I)
HasTimeMark(text) ==
    \/ \E i \in 1..(Len(text) - 1) :
          Lower(text[i]) \in {"a", "p"} /\ Lower(text[i + 1]) = "m"
    \/ \E i \in 1..(Len(text) - 2) :
          /\ LowerAll(SubSeq(text, i, i + 2)) = <<"p", "s", "t">>
          /\ (i = 1 \/ ~IsWordChar(text[i - 1]))
          /\ (i + 2 = Len(text) \/ ~IsWordChar(text[i + 3]))

\* name of an a.team_name cell (lines 303-304)
CellName(a) == IF a.span.some THEN Strip(a.span.v) ELSE a.text

\* raw image reference of a cell (lines 307-308): data-src before src
CellRaw(a) ==
    IF ~a.img.present THEN None
    ELSE IF Truthy(a.img.data_src) THEN a.img.data_src ELSE a.img.src

\* the loop over team_cells[:2] (lines 302-319)
RECURSIVE TeamCells(_, _, _)
TeamCells(acc, cells, net) ==
    LET a    == Head(cells)
        name == CellName(a)
        Add(img, lk) == [st          |-> lk.st,
                         teams_names |-> IF name # <<>> THEN Append(acc.teams_names, name)
                                         ELSE acc.teams_names,
                         team_images |-> Append(acc.team_images, img.ret),
                         link        |-> lk.ret]
        Link(img) == Add(img, IF ~Truthy(acc.link) /\ Truthy(a.href)
                              THEN NormSrc(img.st, a.href)
                              ELSE [st |-> img.st, ret |-> acc.link])
        Rest(b) == TeamCells(b, Tail(cells), net)
    IN  IF cells = <<>> THEN acc
        ELSE Call(Rest, Link(TeamImage(acc.st, CellRaw(a), name, net)))

\* title of a row (lines 336-342)
ComposeTitle(teams_names, match_type) ==
    LET vs    == Join(SubSeq(teams_names, 1, IF Len(teams_names) < 2 THEN Len(teams_names) ELSE 2),
                      <<" ", "v", "s", " ">>)
        parts == (IF teams_names # <<>> THEN <<vs>> ELSE <<>>)
                 \o (IF Truthy(match_type) THEN <<match_type.v>> ELSE <<>>)
    IN  IF parts # <<>> THEN Join(parts, <<",", " ">>)
        ELSE IF Truthy(match_type) THEN match_type.v ELSE <<>>

Upcoming == <<"U", "p", "c", "o", "m", "i", "n", "g">>

\* one iteration of the loop over the rows that have a <td> (lines 294-361)
ParseRow(st, tr, net) ==
    LET match_type == IF tr.tds >= 2 /\ tr.match_type # <<>> THEN Some(tr.match_type) ELSE None
        date_time  == IF tr.tds >= 3 /\ tr.date_line # <<>> THEN Some(tr.date_line) ELSE None
        status == IF Truthy(date_time) /\ HasTimeMark(date_time.v) THEN Some(Upcoming) ELSE None
        Item(c, lk, title) ==
            [st   |-> lk.st,
             skip |-> Skip(title, c.teams_names, date_time),
             item |-> [title |-> title, teams |-> c.teams_names, team_images |-> c.team_images,
                       status |-> status, time_or_venue |-> date_time, link |-> lk.ret]]
        Link(c) == Item(c,
                        IF ~Truthy(c.link) /\ tr.series_link.some
                        THEN NormSrc(c.st, tr.series_link)
                        ELSE [st |-> c.st, ret |-> c.link],
                        ComposeTitle(c.teams_names, match_type))
    IN  Call(Link,
             TeamCells([st |-> st, teams_names |-> <<>>, team_images |-> <<>>, link |-> None],
                       SubSeq(tr.team_cells, 1,
                              IF Len(tr.team_cells) < 2 THEN Len(tr.team_cells) ELSE 2),
                       net))

RECURSIVE ParseRows(_, _, _)
ParseRows(acc, rows, net) ==
    LET Rest(a) == ParseRows(a, Tail(rows), net)
    IN  IF rows = <<>> THEN acc
        ELSE IF Head(rows).tds = 0 THEN Rest(acc)
        ELSE Call(Rest, Collect(acc, ParseRow(acc.st, Head(rows), net)))

ParseScheduleTable(st, table, net) ==
    IF ~table.present THEN [st |-> st, items |-> <<>>]
    ELSE ParseRows([st |-> st, items |-> <<>>], table.rows, net)

\* ---- the merge: scraper.parse_schedules_html ----
\* key_for (lines 379-383)
key_for(it) ==
    it.title \o <<"|">> \o Join(it.teams, <<"-">>) \o <<"|">>
      \o (IF Truthy(it.time_or_venue) THEN it.time_or_venue.v ELSE <<>>)

\* mutant: the loop appends every record, seen or not
RECURSIVE MergeKeepingAll(_, _, _)
MergeKeepingAll(items, seen, merged) ==
    IF items = <<>> THEN merged
    ELSE MergeKeepingAll(Tail(items), seen \cup {key_for(Head(items))},
                         Append(merged, Head(items)))
\* the loop of lines 385-390
RECURSIVE Merge(_, _, _)
Merge(items, seen, merged) ==
    IF items = <<>> THEN merged
    ELSE LET k == key_for(Head(items))
         IN  IF k \in seen THEN Merge(Tail(items), seen, merged)
             ELSE Merge(Tail(items), seen \cup {k}, Append(merged, Head(items)))

ParseSchedulesHtml(st, markup, net) ==
    LET Result(card_items, table) ==
            [st          |-> table.st,
             card_items  |-> card_items,
             table_items |-> table.items,
             merged      |-> Merge(card_items \o table.items, {}, <<>>)]
        Table(card) == Result(card.items, ParseScheduleTable(card.st, markup.table, net))
    IN  Call(Table, ParseMatchUpdates([st |-> st, items |-> <<>>], markup.cards, net))

\* ---- the pages served to the extractor ----
TextA == <<"A">>
TextB == <<"B">>
TextLive == <<"L", "i", "v", "e">>
TextAvsBLive == <<"A", " ", "v", "s", " ", "B", " ", "L", "i", "v", "e">>
Text1PM == <<"1", " ", "P", "M">>
Text2PST == <<"2", " ", "P", "S", "T">>
TextT20 == <<"T", "2", "0">>
FlagRef(id) == <<"/", "cricket/", "flags/">> \o id \o <<".gif">>
NoImg == [present |-> FALSE, data_src |-> None, src |-> None]

\* a live card: title with a <small> status, two named teams with flags (the
\* second with a score span first), a link and a result line
CardLive ==
    [p |-> [present |-> TRUE, raw_title |-> TextAvsBLive, small |-> Some(TextLive)],
     teamnodes |-> << [spans |-> <<[score |-> FALSE, text |-> TextA]>>, text |-> TextA,
                       img |-> Some(FlagRef(Str(1)))],
                      [spans |-> <<[score |-> TRUE, text |-> <<"9">>],
                                   [score |-> FALSE, text |-> TextB]>>,
                       text |-> <<"9", " ", "B">>, img |-> Some(FlagRef(Str(2)))] >>,
     link |-> Some(<<"/", "m">>),
     res |-> Some(Text1PM)]
\* a card whose <p> holds only the status and whose result element is empty
CardEmpty ==
    [p |-> [present |-> TRUE, raw_title |-> TextLive, small |-> Some(TextLive)],
     teamnodes |-> <<>>, link |-> Some(<<"data:", "x">>), res |-> Some(<<>>)]
\* a card with nothing but a result line
CardResultOnly ==
    [p |-> [present |-> FALSE, raw_title |-> <<>>, small |-> None],
     teamnodes |-> <<>>, link |-> None, res |-> Some(Text2PST)]
\* a card with three .teamname nodes, the second an image without a name
CardThreeNodes ==
    [p |-> [present |-> TRUE, raw_title |-> TextT20, small |-> None],
     teamnodes |-> << [spans |-> <<>>, text |-> TextA, img |-> Some(FlagRef(Str(1)))],
                      [spans |-> <<>>, text |-> <<>>, img |-> Some(<<"//", "x", ".png">>)],
                      [spans |-> <<>>, text |-> TextB, img |-> None] >>,
     link |-> None, res |-> None]
\* a card with the title of CardThreeNodes and one team, named "A-B"
CardJoinedName ==
    [p |-> [present |-> TRUE, raw_title |-> TextT20, small |-> None],
     teamnodes |-> << [spans |-> <<>>, text |-> <<"A", "-", "B">>, img |-> None] >>,
     link |-> None, res |-> None]
CardSet == {CardLive, CardEmpty, CardResultOnly, CardThreeNodes, CardJoinedName}

\* a row for the same fixture as CardLive, without a match type
RowAvsB ==
    [tds |-> 3,
     team_cells |-> << [span |-> Some(TextA), text |-> TextA,
                        img |-> [present |-> TRUE, data_src |-> Some(FlagRef(Str(1))),
                                 src |-> Some(<<"data:", "x">>)],
                        href |-> Some(<<"/", "t">>)],
                       [span |-> None, text |-> TextB,
                        img |-> [present |-> TRUE, data_src |-> None,
                                 src |-> Some(FlagRef(Str(2)))],
                        href |-> None] >>,
     series_link |-> Some(<<"/", "t">>), match_type |-> <<>>, date_line |-> Text1PM]
\* a header row: no <td>
RowHeader ==
    [tds |-> 0, team_cells |-> <<>>, series_link |-> None,
     match_type |-> <<>>, date_line |-> <<>>]
\* a row with one empty cell
RowEmpty ==
    [tds |-> 1, team_cells |-> <<>>, series_link |-> Some(<<"https://", "s">>),
     match_type |-> <<>>, date_line |-> <<>>]
\* a row with a match type and one team cell that holds only an image
RowImageOnly ==
    [tds |-> 3,
     team_cells |-> << [span |-> Some(<<>>), text |-> <<>>,
                        img |-> [present |-> TRUE, data_src |-> None,
                                 src |-> Some(FlagRef(Str(1)))],
                        href |-> None] >>,
     series_link |-> None, match_type |-> TextT20, date_line |-> <<>>]
\* a row with nothing but a date
RowDateOnly ==
    [tds |-> 3, team_cells |-> <<>>, series_link |-> None,
     match_type |-> <<>>, date_line |-> Text2PST]
RowSet == {RowAvsB, RowHeader, RowEmpty, RowImageOnly, RowDateOnly}

SeqsUpTo(S, n) == UNION {[1..k -> S] : k \in 0..n}

Pages ==
    {[cards |-> cs, table |-> tb] :
        cs \in SeqsUpTo(CardSet, MaxCards),
        tb \in {[present |-> FALSE, rows |-> <<>>]}
               \cup {[present |-> TRUE, rows |-> rs] : rs \in SeqsUpTo(RowSet, MaxRows)}}

\* the flag site answers every download of one request alike
NetAnswers ==
    {[id \in FlagIds |-> r] :
        r \in {[st |-> "ok", len |-> MinFlagBytes], [st |-> "transport", len |-> 0]}}

InitParse ==
    /\ FlagsIdle /\ WritersIdle /\ CacheIdle
    /\ rawDir = {}
    /\ byNameDir = EmptyDict
    /\ request \in {[markup |-> m, net |-> n] : m \in Pages, n \in NetAnswers}
    /\ result = <<>>

\* one call of parse_schedules_html on the markup of the request
ParseSchedules ==
    /\ result = <<>>
    /\ \E r \in {ParseSchedulesHtml(Store, request.markup, request.net)} :
          /\ result' = [card_items |-> r.card_items, table_items |-> r.table_items,
                        merged |-> r.merged]
          /\ SetStore(r.st)
    /\ UNCHANGED <<request, last, ops, writerVars, cacheVars>>

NextParse == ParseSchedules

SpecParse == InitParse /\ [][NextParse]_vars

(***************************************************************************)
(* Claims about the schedule extractor.                                    *)
(***************************************************************************)
Parsed == result # <<>>
AllItems == result.card_items \o result.table_items
ItemsOf(items) == {items[i] : i \in DOMAIN items}

\* C8: every record of the card pass, of the table pass and of the merged output
\* has as many team_images as teams, and at most 2 team_images.
C8_TeamImagesBounded ==
    Parsed => \A it \in ItemsOf(AllItems) \cup ItemsOf(result.merged) :
                 /\ Len(it.team_images) = Len(it.teams)
                 /\ Len(it.team_images) <= 2

\* positions of AllItems whose key no earlier position carries, in order
RECURSIVE FirstOccurrences(_, _)
FirstOccurrences(items, i) ==
    IF i > Len(items) THEN <<>>
    ELSE (IF \E j \in 1..(i - 1) : key_for(items[j]) = key_for(items[i])
          THEN <<>> ELSE <<items[i]>>)
         \o FirstOccurrences(items, i + 1)

\* C9: the output is the card-pass records followed by the table-pass records
\* with every record whose key equals that of an earlier record removed: the
\* first occurrence stays, the order is kept, nothing else is dropped.
C9_Merge ==
    Parsed => result.merged = FirstOccurrences(AllItems, 1)

\* a card-pass record and a table-pass record share a key and differ otherwise;
\* the merged output holds the card-pass one only
C9_Witness ==
    /\ Parsed
    /\ \E c \in ItemsOf(result.card_items), t \in ItemsOf(result.table_items) :
          /\ key_for(c) = key_for(t)
          /\ c # t
          /\ c \in ItemsOf(result.merged)
          /\ t \notin ItemsOf(result.merged)
    /\ Len(result.merged) >= 3

\* what the discard rule looks at, for a card and for a row with a <td>
RECURSIVE NonEmptyNames(_)
NonEmptyNames(names) ==
    IF names = <<>> THEN <<>>
    ELSE (IF Head(names) # <<>> THEN <<Head(names)>> ELSE <<>>) \o NonEmptyNames(Tail(names))
FirstTwo(s) == SubSeq(s, 1, IF Len(s) < 2 THEN Len(s) ELSE 2)
CardFields(card) ==
    [title |-> CardTitle(card),
     teams |-> FirstTwo(NonEmptyNames([i \in DOMAIN card.teamnodes |-> NameText(card.teamnodes[i])])),
     time  |-> card.res]
RowFields(tr) ==
    LET names == NonEmptyNames([i \in DOMAIN FirstTwo(tr.team_cells) |->
                                   CellName(tr.team_cells[i])])
        mt    == IF tr.tds >= 2 /\ tr.match_type # <<>> THEN Some(tr.match_type) ELSE None
    IN  [title |-> ComposeTitle(names, mt),
         teams |-> names,
         time  |-> IF tr.tds >= 3 /\ tr.date_line # <<>> THEN Some(tr.date_line) ELSE None]
FieldsOfItem(it) == [title |-> it.title, teams |-> it.teams, time |-> it.time_or_venue]
AllThreeEmpty(f) ==
    /\ Strip(f.title) = <<>>
    /\ f.teams = <<>>
    /\ (~f.time.some \/ f.time.v = <<>>)
RECURSIVE Emitted(_)
Emitted(fields) ==
    IF fields = <<>> THEN <<>>
    ELSE (IF AllThreeEmpty(Head(fields)) THEN <<>> ELSE <<Head(fields)>>)
         \o Emitted(Tail(fields))

\* C10: each pass drops exactly the cards (rows) whose title, teams and
\* time_or_venue are all empty, and emits every other one, in order; no record
\* of the output has all three empty.
C10_DiscardRule ==
    Parsed =>
        LET cards == request.markup.cards
            rows  == request.markup.table.rows
        IN  /\ [i \in DOMAIN result.card_items |-> FieldsOfItem(result.card_items[i])]
                 = Emitted([i \in DOMAIN cards |-> CardFields(cards[i])])
            /\ [i \in DOMAIN result.table_items |-> FieldsOfItem(result.table_items[i])]
                 = Emitted([i \in DOMAIN rows |-> RowFields(rows[i])])
            /\ \A it \in ItemsOf(result.merged) : ~AllThreeEmpty(FieldsOfItem(it))

\* an empty card and an empty row were dropped, a card and a row holding only a
\* time were emitted
C10_Witness ==
    /\ Parsed
    /\ request.markup.cards = <<CardEmpty, CardResultOnly>>
    /\ request.markup.table.rows = <<RowEmpty, RowDateOnly>>
    /\ Len(result.card_items) = 1
    /\ Len(result.table_items) = 1
    /\ Len(result.merged) = 1

\* positions of `items` whose title, teams and time_or_venue no earlier position
\* carries together, in order
RECURSIVE FirstByFields(_, _)
FirstByFields(items, i) ==
    IF i > Len(items) THEN <<>>
    ELSE (IF \E j \in 1..(i - 1) : FieldsOfItem(items[j]) = FieldsOfItem(items[i])
          THEN <<>> ELSE <<items[i]>>)
         \o FirstByFields(items, i + 1)

\* C15: the merge drops a record only when an earlier record has the same title,
\* the same teams and the same time_or_venue: the output holds every record that
\* differs from all earlier ones in one of the three.
C15_OnlySameFieldsRemoved ==
    Parsed => result.merged = FirstByFields(AllItems, 1)

(***************************************************************************)
(* The source normalizer on its own: _norm_src applied to a reference      *)
(* while the resolver fills the mapping and the server restarts.           *)
(***************************************************************************)
\* the references handed to _norm_src: absent, empty, flag references of both
\* directory names and extensions, a data: URI (one of them holding a flag path),
\* a protocol-relative, a root-relative and an absolute URL, and a flag path with
\* another extension
Refs ==
    { None, Some(<<>>),
      Some(FlagRef(Str(1))),
      Some(<<"//", "h/", "cricflag/">> \o Str(2) \o <<".png">>),
      Some(<<"data:", "x">>),
      Some(<<"data:", "flags/">> \o Str(1) \o <<".gif">>),
      Some(<<"//", "x/y.png">>),
      Some(<<"/", "a/b">>),
      Some(<<"https://already/abs">>),
      Some(<<"/", "flags/">> \o Str(1) \o <<".jpg">>) }

NormTick == ops < MaxOps /\ ops' = ops + 1 /\ UNCHANGED <<writerVars, cacheVars>>

\* a call of _norm_src(src)
Normalize ==
    \E src \in Refs :
        \E r \in {NormSrc(Store, src)} :
            /\ SetStore(r.st)
            /\ request' = [src |-> src]
            /\ result' = r.ret
            /\ last' = [NoCall EXCEPT !.op = "norm"]

\* a call of _ensure_flag_local(flag_id, team_name) between two normalisations;
\* only its effect on the store is kept
ResolveBetween ==
    \E flag_id \in FlagIds, team_name \in TeamNames, resp \in Responses :
        \E r \in {EnsureFlagLocal(Store, flag_id, team_name, resp)} :
            /\ SetStore(r.st)
            /\ last' = [NoCall EXCEPT !.op = "resolve"]
            /\ UNCHANGED parseVars

NextNorm ==
    \/ NormTick /\ Normalize
    \/ NormTick /\ ResolveBetween
    \/ NormTick /\ Restart /\ UNCHANGED parseVars

SpecNorm == Init /\ [][NextNorm]_vars

\* C12: _norm_src returns nothing for an absent or empty reference; else the local
\* path when the reference encodes an identifier that has an id_to_path entry,
\* before any other rule; else nothing for "data:", "https:" + reference for "//",
\* "https://hamariweb.com" + reference for "/", and the reference itself otherwise.
C12_RuleOrder ==
    last.op = "norm" =>
        LET src == request.src
            m   == IF Truthy(src) THEN FlagIdOf(src.v) ELSE None
        IN  result =
              IF ~src.some \/ src.v = <<>> THEN None
              ELSE IF m.some /\ m.v \in DOMAIN flagsMap.id_to_path
                   THEN Some(LocalRef(flagsMap.id_to_path[m.v]))
              ELSE IF Head(src.v) = "data:" THEN None
              ELSE IF Head(src.v) = "//" THEN Some(<<"https:">> \o src.v)
              ELSE IF Head(src.v) = "/" THEN Some(<<"https://hamariweb.com">> \o src.v)
              ELSE src

\* C12 witness: a root-relative flag reference whose identifier is mapped was
\* normalised to the local path
C12_Witness ==
    /\ last.op = "norm"
    /\ request.src = Some(FlagRef(Str(1)))
    /\ Str(1) \in DOMAIN flagsMap.id_to_path
    /\ result = Some(LocalRef(flagsMap.id_to_path[Str(1)]))

(***************************************************************************)
(* The scorecard extractor: scraper.parse_scorecard_html.  A page is its   *)
(* <title> text and its tables; a table is the text of its <thead> and its *)
(* rows; a row is the texts of its <td> cells and of the <b> and <small>   *)
(* inside the first cell.                                                  *)
(***************************************************************************)
StartsWith(s, prefix) == Len(s) >= Len(prefix) /\ SubSeq(s, 1, Len(prefix)) = prefix

\* s.find(sub) + 1: the position of the first occurrence, 0 when there is none
FindSub(s, sub) ==
    LET at == {i \in 1..(Len(s) - Len(sub) + 1) : SubSeq(s, i, i + Len(sub) - 1) = sub}
    IN  IF at = {} THEN 0 ELSE CHOOSE i \in at : \A j \in at : i <= j

\* sub in s
Contains(s, sub) == FindSub(s, sub) # 0

\* Python's `a or b` on two texts
OrText(a, b) == IF a # <<>> THEN a ELSE b
\* Python's `text or None`
OrNone(a) == IF a # <<>> THEN Some(a) ELSE None

TextVS == <<" ", "V", "S", " ">>

\* scraper._extract_title_and_teams: [title, teams]
ExtractTitleAndTeams(title_text) ==
    LET title == OrNone(title_text)
        at    == FindSub(title_text, TextVS)
        left  == Strip(SubSeq(title_text, 1, at - 1))
        right_part == SubSeq(title_text, at + Len(TextVS), Len(title_text))
        comma == FindSub(right_part, <<",">>)
        right == Strip(IF comma = 0 THEN right_part ELSE SubSeq(right_part, 1, comma - 1))
    IN  [title |-> title,
         teams |-> IF Truthy(title) /\ at # 0 /\ left # <<>> /\ right # <<>>
                   THEN <<left, right>> ELSE <<>>]

\* the text of cell i of a row, None when the row is shorter (lines 444-450)
Stat(cells, i) == IF Len(cells) > i THEN Some(cells[i + 1]) ELSE None

\* " ".join(_text(td) for td in tds[1:]).strip() or None
RestOfRow(cells) == OrNone(Strip(Join(Tail(cells), <<" ">>)))

TextExtras == <<"e", "x", "t", "r", "a", "s">>
TextTotal == <<"t", "o", "t", "a", "l">>
TextDidNotBat == <<"d", "i", "d", " ", "n", "o", "t", " ", "b", "a", "t">>

\* scraper._parse_batting_table: the loop over the rows
RECURSIVE BattingRows(_, _)
BattingRows(acc, rows) ==
    LET tr    == Head(rows)
        label == LowerAll(tr.cells[1])
        name  == OrText(tr.b, tr.cells[1])
        stats == [i \in 1..5 |-> Stat(tr.cells, i)]
        Rest(a) == BattingRows(a, Tail(rows))
    IN  IF rows = <<>> THEN acc
        ELSE IF tr.cells = <<>> THEN Rest(acc)
        ELSE IF StartsWith(label, TextExtras) THEN Rest([acc EXCEPT !.extras = RestOfRow(tr.cells)])
        ELSE IF StartsWith(label, TextTotal) THEN Rest([acc EXCEPT !.total = RestOfRow(tr.cells)])
        ELSE IF /\ name # <<>>
                /\ \E i \in 1..5 : Truthy(stats[i])
                /\ ~StartsWith(label, TextDidNotBat)
             THEN Rest([acc EXCEPT !.batting =
                           Append(@, [name |-> name, dismissal |-> OrNone(tr.small),
                                      runs |-> stats[1], balls |-> stats[2],
                                      fours |-> stats[3], sixes |-> stats[4],
                                      sr |-> stats[5]])])
        ELSE Rest(acc)

ParseBattingTable(table) ==
    BattingRows([batting |-> <<>>, extras |-> None, total |-> None, note |-> None],
                table.rows)

\* scraper._parse_bowling_table
RECURSIVE ParseBowlingRows(_, _)
ParseBowlingRows(bowlers, rows) ==
    LET c == Head(rows).cells
    IN  IF rows = <<>> THEN bowlers
        ELSE IF Len(c) < 6 \/ c[1] = <<>> THEN ParseBowlingRows(bowlers, Tail(rows))
        ELSE ParseBowlingRows(Append(bowlers, [name |-> c[1], ov |-> c[2], m |-> c[3],
                                               r |-> c[4], w |-> c[5], econ |-> c[6]]),
                              Tail(rows))
ParseBowlingTable(table) == ParseBowlingRows(<<>>, table.rows)

TextBatting == <<"b", "a", "t", "t", "i", "n", "g">>
TextBowling == <<"b", "o", "w", "l", "i", "n", "g">>

\* lines 530-538: a table with a <thead> is a batting table when its head text
\* holds "batting", else a bowling table when it holds "bowling"
HeadOf(table) == LowerAll(table.thead.v)
IsBattingTable(table) == table.thead.some /\ Contains(HeadOf(table), TextBatting)
IsBowlingTable(table) ==
    table.thead.some /\ ~Contains(HeadOf(table), TextBatting) /\ Contains(HeadOf(table), TextBowling)

\* mutant: the team index is not taken modulo the number of teams
TeamForClamped(teams, idx) == teams[IF idx < Len(teams) THEN idx + 1 ELSE Len(teams)]
\* line 549: teams[idx % len(teams)], idx counted from 0
TeamFor(teams, idx) == teams[(idx % Len(teams)) + 1]

\* lines 541-550: the loop over enumerate(batting_tables)
RECURSIVE BuildInnings(_, _, _, _, _)
BuildInnings(innings, idx, batting_tables, bowling_tables, teams) ==
    LET inn == ParseBattingTable(batting_tables[idx + 1])
        bowling == IF idx < Len(bowling_tables)
                   THEN Some(ParseBowlingTable(bowling_tables[idx + 1])) ELSE None
        team == IF teams # <<>> THEN Some(TeamFor(teams, idx)) ELSE None
    IN  IF idx >= Len(batting_tables) THEN innings
        ELSE BuildInnings(Append(innings, [batting |-> inn.batting, extras |-> inn.extras,
                                           total |-> inn.total, note |-> inn.note,
                                           bowling |-> bowling, team |-> team]),
                          idx + 1, batting_tables, bowling_tables, teams)

\* scraper.parse_scorecard_html (the match information aside)
ParseScorecardHtml(doc) ==
    LET tt == ExtractTitleAndTeams(doc.title)
        batting_tables == SelectSeq(doc.tables, IsBattingTable)
        bowling_tables == SelectSeq(doc.tables, IsBowlingTable)
    IN  [ok |-> TRUE, title |-> tt.title, teams |-> tt.teams,
         innings |-> BuildInnings(<<>>, 0, batting_tables, bowling_tables, tt.teams),
         source |-> [batting_count |-> Len(batting_tables),
                     bowling_count |-> Len(bowling_tables)]]

\* ---- the scorecard pages served to the extractor ----
Cell(n) == Str(n)
TextX == <<"X">>
TextY == <<"Y">>
BatRow(b, small, first, stats) == [cells |-> <<first>> \o stats, b |-> b, small |-> small]
\* a batting table: two players, one of them not out, extras and a total
BatTableA ==
    [thead |-> Some(<<"B", "a", "t", "t", "i", "n", "g">>),
     rows |-> << BatRow(TextX, <<"b", " ", "Y">>, <<"X", " ", "b", " ", "Y">>,
                        <<Cell(9), Cell(7), Cell(1), Cell(0), Cell(128)>>),
                 BatRow(<<>>, <<>>, <<"E", "x", "t", "r", "a", "s">>, <<Cell(3)>>),
                 BatRow(<<>>, <<>>, <<"T", "o", "t", "a", "l">>, <<Cell(12), <<>>, Cell(2)>>) >>]
\* a batting table: a header row without cells, a player who did not bat, one who did
BatTableB ==
    [thead |-> Some(<<"B", "A", "T", "T", "I", "N", "G", " ", "b", "o", "w", "l", "i", "n", "g">>),
     rows |-> << [cells |-> <<>>, b |-> <<>>, small |-> <<>>],
                 BatRow(<<>>, <<>>, <<"D", "i", "d", " ", "n", "o", "t", " ", "b", "a", "t">>,
                        <<TextX>>),
                 BatRow(<<>>, <<>>, TextY, <<Cell(4)>>) >>]
\* a bowling table: one bowler and a short row
BowlTableA ==
    [thead |-> Some(<<"B", "o", "w", "l", "i", "n", "g">>),
     rows |-> << [cells |-> <<TextY, Cell(4), Cell(0), Cell(20), Cell(1), Cell(5)>>,
                  b |-> <<>>, small |-> <<>>],
                 [cells |-> <<TextX, Cell(1)>>, b |-> <<>>, small |-> <<>>] >>]
\* a bowling table with no bowler
BowlTableB ==
    [thead |-> Some(<<"b", "o", "w", "l", "i", "n", "g">>),
     rows |-> << [cells |-> << <<>>, Cell(1), Cell(0), Cell(2), Cell(0), Cell(2)>>,
                  b |-> <<>>, small |-> <<>>] >>]
\* a table without <thead>
PlainTable == [thead |-> None, rows |-> <<>>]
TableSet == {BatTableA, BatTableB, BowlTableA, BowlTableB, PlainTable}

\* <title> texts: none, two teams with and without a trailing part, lower-case
\* "vs", and a missing left or right team
Titles ==
    { <<>>,
      <<"A", " ", "V", "S", " ", "B", ",", " ", "T", "2", "0">>,
      <<"A", " ", "V", "S", " ", "B">>,
      <<"A", " ", "v", "s", " ", "B">>,
      <<" ", "V", "S", " ", "B">>,
      <<"A", " ", "V", "S", " ", ",", "B">> }

Scorecards == {[title |-> t, tables |-> ts] : t \in Titles, ts \in SeqsUpTo(TableSet, MaxTables)}

InitScore ==
    /\ FlagsIdle /\ WritersIdle /\ CacheIdle
    /\ rawDir = {} /\ byNameDir = EmptyDict
    /\ request \in {[scorecard |-> d] : d \in Scorecards}
    /\ result = <<>>

\* one call of parse_scorecard_html on the markup of the request
ParseScorecard ==
    /\ result = <<>>
    /\ result' = ParseScorecardHtml(request.scorecard)
    /\ UNCHANGED <<request, flagVars, dirVars, writerVars, cacheVars>>

NextScore == ParseScorecard

SpecScore == InitScore /\ [][NextScore]_vars

\* C13: parse_scorecard_html returns one innings per batting table; innings i is the
\* parse of batting table i, carries the parse of bowling table i as bowling, or no
\* bowling when there are fewer bowling tables; the team list has 0 or 2 entries
\* and, when it has 2, innings i carries teams[i mod 2].
C13_Pairing ==
    result # <<>> =>
        LET bats  == SelectSeq(request.scorecard.tables, IsBattingTable)
            bowls == SelectSeq(request.scorecard.tables, IsBowlingTable)
            inns  == result.innings
        IN  /\ Len(inns) = Len(bats)
            /\ Len(result.teams) \in {0, 2}
            /\ \A i \in DOMAIN inns :
                  /\ [batting |-> inns[i].batting, extras |-> inns[i].extras,
                      total |-> inns[i].total, note |-> inns[i].note]
                       = ParseBattingTable(bats[i])
                  /\ inns[i].bowling = IF i <= Len(bowls)
                                       THEN Some(ParseBowlingTable(bowls[i])) ELSE None
                  /\ inns[i].team = IF result.teams = <<>> THEN None
                                    ELSE Some(result.teams[IF i % 2 = 1 THEN 1 ELSE 2])

\* C13 witness: three innings for two teams, the third without a bowling table and
\* carrying the first team again
C13_Witness ==
    /\ result # <<>>
    /\ Len(result.innings) = 3
    /\ result.source.bowling_count = 1
    /\ result.teams = <<TextA, TextB>>
    /\ result.innings[1].bowling.some
    /\ ~result.innings[3].bowling.some
    /\ result.innings[3].team = Some(TextA)
    /\ result.innings[2].team = Some(TextB)
    /\ result.innings[1].batting # result.innings[2].batting

====
